---- MODULE Spec2Model ----
(***************************************************************************)
(* A model of the LCA disclosure cleaners:                                 *)
(*   scripts/clean_lca_xlsx_to_csv.py  (single-file mode)                  *)
(*   scripts/backfill_clean_all.py     (batch mode)                        *)
(*                                                                         *)
(* Text is a sequence of characters, each character a one-element string.  *)
(* A missing cell (pd.NA) is the one-element sequence NA, whose element is *)
(* no character.  Numbers are exact decimals [isna, w, f] standing for     *)
(* w + f/SCALE with 0 <= f < SCALE; a missing number (NaN) has isna set.   *)
(* Dates are [isna, y, m, d]; NaT has isna set.                            *)
(***************************************************************************)
EXTENDS Integers, Sequences, FiniteSets, TLC

VARIABLES pc,        \* position of the run being modelled
          name,      \* norm_col: the raw header
          token,     \* norm_col: norm_col(name)
          token2,    \* norm_col: norm_col(token)
          dcell,     \* parse_mixed_date_series: the raw date cell
          parsed,    \* parse_mixed_date_series: its result
          lib,       \* how the installed pandas reads bare numerals as dates
          script,    \* "single" (clean_lca_xlsx_to_csv) or "batch" (backfill_clean_all)
          strategy,  \* --wage-strategy
          df,        \* the table read from the source file
          merged,    \* the table after rename, coalescing and slicing
          cleaned,   \* the records returned by the cleaner
          listing,   \* batch: the matched names, in os.listdir order
          files,     \* batch: the names in processing order
          manifest_rows, \* batch: the summary rows collected so far
          outputs,   \* batch: the CSV files written so far, in order
          manifest,  \* batch: the rows of manifest.csv once it is written
          status     \* batch: how the process ended, once it has

normVars == <<name, token, token2>>
dateVars == <<dcell, parsed>>
cleanVars == <<script, strategy, df, merged, cleaned>>
batchVars == <<listing, files, manifest_rows, outputs, manifest, status>>
vars == <<pc, name, token, token2, dcell, parsed, lib, script, strategy, df,
          merged, cleaned, listing, files, manifest_rows, outputs, manifest, status>>

(***************************************************************************)
(* Characters                                                              *)
(***************************************************************************)
UPPER == <<"A","B","C","D","E","F","G","H","I","J","K","L","M",
           "N","O","P","Q","R","S","T","U","V","W","X","Y","Z">>
LOWER == <<"a","b","c","d","e","f","g","h","i","j","k","l","m",
           "n","o","p","q","r","s","t","u","v","w","x","y","z">>
DIGITS == <<"0","1","2","3","4","5","6","7","8","9">>

Range(s) == {s[i] : i \in DOMAIN s}

UpperSet == Range(UPPER)
LowerSet == Range(LOWER)
DigitSet == Range(DIGITS)
IsUpper(c) == c \in UpperSet
IsLower(c) == c \in LowerSet
IsDigit(c) == c \in DigitSet
IndexIn(s, c) == CHOOSE i \in DOMAIN s : s[i] = c
ToLower == [c \in UpperSet |-> LOWER[IndexIn(UPPER, c)]]
ToUpper == [c \in LowerSet |-> UPPER[IndexIn(LOWER, c)]]
DigitValue == [c \in DigitSet |-> IndexIn(DIGITS, c) - 1]

\* U+0130 (capital I with dot above) is written "U0130"; str.lower() turns
\* it into "i" followed by U+0307 (combining dot above), written "U0307".
\* U+0307 is a mark: str.isalnum() is false for it, so \w does not match it.
IsWord(c) == IsUpper(c) \/ IsLower(c) \/ IsDigit(c) \/ c = "_" \/ c = "U0130"

LowerChar(c) ==
    IF IsUpper(c) THEN <<ToLower[c]>>
    ELSE IF c = "U0130" THEN <<"i", "U0307">>
    ELSE <<c>>

UpperChar(c) ==
    IF IsLower(c) THEN <<ToUpper[c]>>
    ELSE <<c>>

RECURSIVE StrLower(_)
StrLower(s) == IF s = <<>> THEN <<>> ELSE LowerChar(Head(s)) \o StrLower(Tail(s))

RECURSIVE StrUpper(_)
StrUpper(s) == IF s = <<>> THEN <<>> ELSE UpperChar(Head(s)) \o StrUpper(Tail(s))

\* str.lstrip / str.rstrip / str.strip over the characters of the set S
RECURSIVE LStrip(_, _)
LStrip(s, S) == IF s # <<>> /\ Head(s) \in S THEN LStrip(Tail(s), S) ELSE s

RECURSIVE RStrip(_, _)
RStrip(s, S) ==
    IF s # <<>> /\ s[Len(s)] \in S THEN RStrip(SubSeq(s, 1, Len(s) - 1), S) ELSE s

Strip(s, S) == RStrip(LStrip(s, S), S)

SPACE == {" "}
UNDERSCORE == {"_"}

\* the rest of s after its leading run of non-word characters
RECURSIVE SkipNonWord(_)
SkipNonWord(s) == IF s # <<>> /\ ~IsWord(Head(s)) THEN SkipNonWord(Tail(s)) ELSE s

\* re.sub(r"[^\w]+", "_", s): every maximal run of non-word characters
\* becomes one underscore.
RECURSIVE SubNonWord(_)
SubNonWord(s) ==
    IF s = <<>> THEN <<>>
    ELSE IF IsWord(Head(s)) THEN <<Head(s)>> \o SubNonWord(Tail(s))
    ELSE <<"_">> \o SubNonWord(SkipNonWord(s))

\* re.sub(r"_+", "_", s): every maximal run of underscores becomes one.
RECURSIVE SubUnderscores(_)
SubUnderscores(s) ==
    IF s = <<>> THEN <<>>
    ELSE IF Head(s) = "_" THEN <<"_">> \o SubUnderscores(LStrip(s, UNDERSCORE))
    ELSE <<Head(s)>> \o SubUnderscores(Tail(s))

(***************************************************************************)
(* norm_col                                                                *)
(***************************************************************************)
\* A slip in the order of the steps: the underscores are stripped before
\* the non-word runs are replaced.
norm_col_strip_first(s) ==
    SubUnderscores(SubNonWord(Strip(StrLower(Strip(s, SPACE)), UNDERSCORE)))

norm_col(s) ==
    Strip(SubUnderscores(SubNonWord(StrLower(Strip(s, SPACE)))), UNDERSCORE)

(***************************************************************************)
(* The target (database) field names, spelled as character sequences      *)
(***************************************************************************)
t_case_number == <<"c","a","s","e","_","n","u","m","b","e","r">>
t_case_status == <<"c","a","s","e","_","s","t","a","t","u","s">>
t_received_date == <<"r","e","c","e","i","v","e","d","_","d","a","t","e">>
t_decision_date == <<"d","e","c","i","s","i","o","n","_","d","a","t","e">>
t_employer_name == <<"e","m","p","l","o","y","e","r","_","n","a","m","e">>
t_job_title == <<"j","o","b","_","t","i","t","l","e">>
t_soc_code == <<"s","o","c","_","c","o","d","e">>
t_soc_title == <<"s","o","c","_","t","i","t","l","e">>
t_worksite_city == <<"w","o","r","k","s","i","t","e","_","c","i","t","y">>
t_worksite_state == <<"w","o","r","k","s","i","t","e","_","s","t","a","t","e">>
t_wage_rate_from == <<"w","a","g","e","_","r","a","t","e","_","f","r","o","m">>
t_wage_rate_to == <<"w","a","g","e","_","r","a","t","e","_","t","o">>
t_wage_unit == <<"w","a","g","e","_","u","n","i","t">>
t_wage_annual == <<"w","a","g","e","_","a","n","n","u","a","l">>
t_year == <<"y","e","a","r">>

\* pd.NA in a text column, and str(pd.NA)
NA == <<"NA">>
NA_STR == <<"<", "N", "A", ">">>

(***************************************************************************)
(* SOURCE_TO_TARGET: normalised source header -> target field.             *)
(* The single-file script has three synonyms the batch script lacks.       *)
(***************************************************************************)
SOURCE_TO_TARGET_COMMON ==
    { <<t_case_number, t_case_number>>,
      << <<"c","a","s","e","_","n","o">>, t_case_number>>,
      <<t_case_status, t_case_status>>,
      << <<"s","t","a","t","u","s">>, t_case_status>>,
      <<t_received_date, t_received_date>>,
      << <<"c","a","s","e","_">> \o t_received_date, t_received_date>>,
      <<t_decision_date, t_decision_date>>,
      << <<"c","a","s","e","_">> \o t_decision_date, t_decision_date>>,
      << <<"o","r","i","g","i","n","a","l","_","c","e","r","t","_","d","a","t","e">>, t_decision_date>>,
      <<t_employer_name, t_employer_name>>,
      << <<"e","m","p","l","o","y","e","r">>, t_employer_name>>,
      <<t_job_title, t_job_title>>,
      << <<"j","o","b","t","i","t","l","e">>, t_job_title>>,
      <<t_soc_code, t_soc_code>>,
      << <<"s","o","c">>, t_soc_code>>,
      <<t_soc_title, t_soc_title>>,
      <<t_worksite_city, t_worksite_city>>,
      <<t_worksite_state, t_worksite_state>>,
      << <<"w","a","g","e","_","r","a","t","e","_","o","f","_","p","a","y","_","f","r","o","m">>, t_wage_rate_from>>,
      <<t_wage_rate_from, t_wage_rate_from>>,
      << <<"w","a","g","e","_","r","a","t","e","_","o","f","_","p","a","y","_","t","o">>, t_wage_rate_to>>,
      <<t_wage_rate_to, t_wage_rate_to>>,
      << <<"w","a","g","e","_","u","n","i","t","_","o","f","_","p","a","y">>, t_wage_unit>>,
      <<t_wage_unit, t_wage_unit>> }

SOURCE_TO_TARGET_SINGLE_ONLY ==
    { << <<"e","m","p","l","o","y","e","r","_","c","o","m","p","a","n","y","_","n","a","m","e">>, t_employer_name>>,
      << <<"e","m","p","l","o","y","e","r","_","c","i","t","y">>, t_worksite_city>>,
      << <<"e","m","p","l","o","y","e","r","_","s","t","a","t","e">>, t_worksite_state>> }

SOURCE_TO_TARGET_SINGLE == SOURCE_TO_TARGET_COMMON \union SOURCE_TO_TARGET_SINGLE_ONLY
SOURCE_TO_TARGET_BATCH == SOURCE_TO_TARGET_COMMON

SOURCE_TO_TARGET(mode) ==
    IF mode = "single" THEN SOURCE_TO_TARGET_SINGLE ELSE SOURCE_TO_TARGET_BATCH

TARGET_COLS ==
    << t_case_number, t_case_status, t_received_date, t_decision_date,
       t_employer_name, t_job_title, t_soc_code, t_soc_title,
       t_worksite_city, t_worksite_state, t_wage_rate_from, t_wage_rate_to,
       t_wage_unit, t_wage_annual, t_year >>

(***************************************************************************)
(* Exact decimals: [isna, w, f] is w + f/SCALE, 0 <= f < SCALE             *)
(***************************************************************************)
RECURSIVE Pow10(_)
Pow10(n) == IF n = 0 THEN 1 ELSE 10 * Pow10(n - 1)

\* The fractional digits a number keeps: a wage cell has at most this many.
FracDigits == 4
SCALE == Pow10(FracDigits)

NaN == [isna |-> TRUE, w |-> 0, f |-> 0]
Num(w, f) == [isna |-> FALSE, w |-> w, f |-> f]

NumNeg(a) == IF a.f = 0 THEN Num(-a.w, 0) ELSE Num(-a.w - 1, SCALE - a.f)
NumAdd(a, b) == Num(a.w + b.w + ((a.f + b.f) \div SCALE), (a.f + b.f) % SCALE)
NumHalf(a) == Num(a.w \div 2, (((a.w % 2) * SCALE) + a.f) \div 2)
\* a * k for an integer k >= 1.  The model's integers have 32 bits: a product
\* too large for them is kept as HUGE, which like the true product lies
\* outside every range the scripts test.
MulSafe == 1000 * 1000
HUGE == 2000 * MulSafe
NumMulInt(a, k) ==
    IF k = 1 THEN a
    ELSE IF a.w > MulSafe THEN Num(HUGE, 0)
    ELSE IF a.w < -MulSafe THEN Num(-HUGE, 0)
    ELSE Num(a.w * k + ((a.f * k) \div SCALE), (a.f * k) % SCALE)
NumLeq(a, b) == a.w < b.w \/ (a.w = b.w /\ a.f <= b.f)

\* float arithmetic with NaN: a missing operand gives a missing result
FAdd(a, b) == IF a.isna \/ b.isna THEN NaN ELSE NumAdd(a, b)
FHalf(a) == IF a.isna THEN NaN ELSE NumHalf(a)
FMul(a, k) == IF a.isna \/ k.isna THEN NaN ELSE NumMulInt(a, k.w)

\* Series.round(2): to the nearest hundredth, a tie going to the even one
Round2(a) ==
    IF a.isna THEN NaN
    ELSE LET step == SCALE \div 100
             q == a.f \div step
             r == a.f % step
             up == (2 * r > step) \/ (2 * r = step /\ q % 2 = 1)
             q2 == IF up THEN q + 1 ELSE q
         IN IF q2 * step = SCALE THEN Num(a.w + 1, 0) ELSE Num(a.w, q2 * step)

(***************************************************************************)
(* clean_text_series, per cell                                             *)
(***************************************************************************)
MISSING_TOKENS == {<<>>, <<"n","a","n">>, <<"N","a","N">>, <<"N","O","N","E">>, <<"N","o","n","e">>}

clean_text_series(cell) ==
    IF cell = NA THEN NA
    ELSE LET s == Strip(cell, SPACE)
         IN IF s \in MISSING_TOKENS THEN NA ELSE s

(***************************************************************************)
(* coerce_numeric_series, per cell                                         *)
(***************************************************************************)
RECURSIVE RemoveChars(_, _)
RemoveChars(s, S) ==
    IF s = <<>> THEN <<>>
    ELSE IF Head(s) \in S THEN RemoveChars(Tail(s), S)
    ELSE <<Head(s)>> \o RemoveChars(Tail(s), S)

AllDigits(s) == \A i \in DOMAIN s : IsDigit(s[i])

RECURSIVE IntOf(_)
IntOf(s) == IF s = <<>> THEN 0 ELSE 10 * IntOf(SubSeq(s, 1, Len(s) - 1)) + DigitValue[s[Len(s)]]

\* pd.to_numeric(errors="coerce") on a plain decimal: an optional sign,
\* digits, at most one point, at least one digit; anything else is NaN.
\* Cells with more than FracDigits fractional digits are outside the model.
ParseUnsigned(s) ==
    LET dots == {i \in DOMAIN s : s[i] = "."}
    IN IF Cardinality(dots) > 1 THEN NaN
       ELSE LET p == IF dots = {} THEN Len(s) + 1 ELSE CHOOSE i \in dots : TRUE
                ip == SubSeq(s, 1, p - 1)
                fp == SubSeq(s, p + 1, Len(s))
            IN IF ~AllDigits(ip) \/ ~AllDigits(fp) \/ (ip = <<>> /\ fp = <<>>)
                  \/ Len(fp) > FracDigits
               THEN NaN
               ELSE Num(IntOf(ip), IntOf(fp) * Pow10(FracDigits - Len(fp)))

ToNumeric(s) ==
    IF s = <<>> THEN NaN
    ELSE IF Head(s) = "-"
         THEN LET v == ParseUnsigned(Tail(s)) IN IF v.isna THEN NaN ELSE NumNeg(v)
    ELSE IF Head(s) = "+" THEN ParseUnsigned(Tail(s))
    ELSE ParseUnsigned(s)

coerce_numeric_series(cell) ==
    IF cell = NA THEN NaN
    ELSE LET s == Strip(RemoveChars(cell, {"$", ","}), SPACE)
         IN IF s = <<>> THEN NaN ELSE ToNumeric(s)

(***************************************************************************)
(* normalize_wage_unit, WAGE_FACTORS, compute_wage_annual                  *)
(***************************************************************************)
\* normalize_wage_unit(u) followed by .astype("string"): None becomes pd.NA.
\* pd.NA is neither None nor a float, so str(pd.NA) = "<NA>" is normalised
\* like any other text.
normalize_wage_unit(u) ==
    LET s == norm_col(IF u = NA THEN NA_STR ELSE u)
    IN IF s \in {<<"b","i","_","w","e","e","k","l","y">>, <<"b","i","w","e","e","k","l","y">>} THEN <<"b","i","_","w","e","e","k","l","y">>
       ELSE IF s \in {<<"s","e","m","i","_","m","o","n","t","h","l","y">>, <<"s","e","m","i","_","m","o","n","t","h">>}
            THEN <<"s","e","m","i","_","m","o","n","t","h","l","y">>
       ELSE IF s \in {<<"h","o","u","r">>, <<"h","r">>, <<"p","e","r","_","h","o","u","r">>} THEN <<"h","o","u","r">>
       ELSE IF s \in {<<"w","e","e","k">>, <<"w","k">>, <<"p","e","r","_","w","e","e","k">>} THEN <<"w","e","e","k">>
       ELSE IF s \in {<<"m","o","n","t","h">>, <<"m","o">>, <<"p","e","r","_","m","o","n","t","h">>} THEN <<"m","o","n","t","h">>
       ELSE IF s \in {<<"y","e","a","r">>, <<"y","r">>, <<"p","e","r","_","y","e","a","r">>, <<"a","n","n","u","a","l">>} THEN <<"y","e","a","r">>
       ELSE IF s \in {<<"d","a","y">>, <<"d","a","i","l","y">>, <<"p","e","r","_","d","a","y">>} THEN <<"d","a","y">>
       ELSE IF s = <<>> THEN NA
       ELSE s

WAGE_FACTORS ==
    { << <<"y","e","a","r">>, 1>>, << <<"y","r">>, 1>>, << <<"a","n","n","u","a","l">>, 1>>,
      << <<"h","o","u","r">>, 2080>>, << <<"h","r">>, 2080>>,
      << <<"w","e","e","k">>, 52>>, << <<"w","k">>, 52>>,
      << <<"b","i","_","w","e","e","k","l","y">>, 26>>, << <<"b","i","w","e","e","k","l","y">>, 26>>,
      << <<"s","e","m","i","_","m","o","n","t","h","l","y">>, 24>>, << <<"s","e","m","i","m","o","n","t","h","l","y">>, 24>>,
      << <<"m","o","n","t","h">>, 12>>, << <<"m","o">>, 12>>,
      << <<"d","a","y">>, 260>>, << <<"d","a","i","l","y">>, 260>> }

\* A slip: a unit without a multiplier is taken as yearly: .get(str(x), 1.0)
WageFactor_default_one(x) ==
    LET k == IF x = NA THEN NA_STR ELSE x
        hit == {e \in WAGE_FACTORS : e[1] = k}
    IN IF hit = {} THEN Num(1, 0) ELSE Num((CHOOSE e \in hit : TRUE)[2], 0)

\* WAGE_FACTORS.get(str(x), np.nan)
WageFactor(x) ==
    LET k == IF x = NA THEN NA_STR ELSE x
        hit == {e \in WAGE_FACTORS : e[1] = k}
    IN IF hit = {} THEN NaN ELSE Num((CHOOSE e \in hit : TRUE)[2], 0)

WAGE_MIN == 1000
WAGE_MAX == 5000000

\* (annual >= 1000) & (annual <= 5_000_000)
InGuardrails(a) == NumLeq(Num(WAGE_MIN, 0), a) /\ NumLeq(a, Num(WAGE_MAX, 0))

\* A slip: the "from" strategy looks at wage_rate_to first.
WageBase_to_first(wage_from, wage_to, strat) ==
    IF strat = "avg"
    THEN IF ~wage_from.isna /\ ~wage_to.isna THEN FHalf(FAdd(wage_from, wage_to))
         ELSE wage_from
    ELSE IF strat = "max"
    THEN IF wage_from.isna THEN wage_to
         ELSE IF wage_to.isna THEN wage_from
         ELSE IF NumLeq(wage_from, wage_to) THEN wage_to ELSE wage_from
    ELSE IF ~wage_to.isna THEN wage_to ELSE wage_from

\* the base value of each strategy
WageBase(wage_from, wage_to, strat) ==
    IF strat = "avg"
    THEN IF ~wage_from.isna /\ ~wage_to.isna THEN FHalf(FAdd(wage_from, wage_to))
         ELSE wage_from
    ELSE IF strat = "max"
    THEN IF wage_from.isna THEN wage_to
         ELSE IF wage_to.isna THEN wage_from
         ELSE IF NumLeq(wage_from, wage_to) THEN wage_to ELSE wage_from
    ELSE IF ~wage_from.isna THEN wage_from ELSE wage_to

\* A slip: a figure outside the guardrails is clamped to the nearer bound.
Guardrails_clamped(annual) ==
    IF annual.isna THEN NaN
    ELSE IF ~NumLeq(Num(WAGE_MIN, 0), annual) THEN Num(WAGE_MIN, 0)
    ELSE IF ~NumLeq(annual, Num(WAGE_MAX, 0)) THEN Num(WAGE_MAX, 0)
    ELSE annual

\* annual.where(annual.isna() | in range, np.nan)
Guardrails(annual) ==
    IF annual.isna \/ InGuardrails(annual) THEN annual ELSE NaN

compute_wage_annual(wage_from, wage_to, wage_unit, strat) ==
    LET unit_norm == normalize_wage_unit(wage_unit)
        base == WageBase(wage_from, wage_to, strat)
        annual == FMul(base, WageFactor(unit_norm))
    IN Guardrails(annual)

(***************************************************************************)
(* Dates                                                                   *)
(***************************************************************************)
NaT == [isna |-> TRUE, y |-> 0, m |-> 0, d |-> 0]
Date(y, m, d) == [isna |-> FALSE, y |-> y, m |-> m, d |-> d]

IsLeap(y) == (y % 4 = 0 /\ y % 100 # 0) \/ y % 400 = 0
MonthLen(y, m) ==
    IF m = 2 THEN (IF IsLeap(y) THEN 29 ELSE 28)
    ELSE IF m \in {4, 6, 9, 11} THEN 30 ELSE 31

\* pandas keeps timestamps as nanoseconds in 64 bits: 1677-09-21 .. 2262-04-11
IsTimestamp(y, m, d) ==
    /\ y \in 1678..2261
    /\ m \in 1..12
    /\ d \in 1..MonthLen(y, m)

\* day number of a calendar date, counted from 1970-01-01 (proleptic Gregorian)
DaysFromCivil(y, m, d) ==
    LET yy == IF m <= 2 THEN y - 1 ELSE y
        era == yy \div 400
        yoe == yy - era * 400
        doy == ((153 * (IF m > 2 THEN m - 3 ELSE m + 9) + 2) \div 5) + d - 1
        doe == yoe * 365 + (yoe \div 4) - (yoe \div 100) + doy
    IN era * 146097 + doe - 719468

CivilFromDays(z) ==
    LET zz == z + 719468
        era == zz \div 146097
        doe == zz - era * 146097
        yoe == (doe - (doe \div 1460) + (doe \div 36524) - (doe \div 146096)) \div 365
        doy == doe - (365 * yoe + (yoe \div 4) - (yoe \div 100))
        mp == (5 * doy + 2) \div 153
        d == doy - ((153 * mp + 2) \div 5) + 1
        m == IF mp < 10 THEN mp + 3 ELSE mp - 9
        y == yoe + era * 400 + (IF m <= 2 THEN 1 ELSE 0)
    IN Date(y, m, d)

\* A slip: the 1900 date system's nominal day zero instead of 1899-12-30.
SerialToDate_origin_1900(n) == CivilFromDays(DaysFromCivil(1900, 1, 1) + n)

\* pd.to_datetime(n, unit="D", origin="1899-12-30")
SerialToDate(n) == CivilFromDays(DaysFromCivil(1899, 12, 30) + n)

SERIAL_MIN == 18000
SERIAL_MAX == 60000

\* serial_vals.between(18000, 60000)
InSerialRange(n) == SERIAL_MIN <= n /\ n <= SERIAL_MAX

\* ss.str.fullmatch(r"\d{4,6}")
IsSerialToken(ss) == ss # NA /\ Len(ss) \in 4..6 /\ AllDigits(ss)

IsIsoShape(ss) ==
    /\ Len(ss) = 10
    /\ ss[5] = "-" /\ ss[8] = "-"
    /\ AllDigits(SubSeq(ss, 1, 4)) /\ AllDigits(SubSeq(ss, 6, 7))
    /\ AllDigits(SubSeq(ss, 9, 10))

DateIfValid(y, m, d) == IF IsTimestamp(y, m, d) THEN Date(y, m, d) ELSE NaT

\* pd.to_datetime(ss, errors="coerce") on one value: the library's calendar
\* parser.  A YYYY-MM-DD string gives its date when that is a date; text
\* that is no date and a 5-digit numeral give NaT.  Whether the library
\* reads a 4- or 6-digit numeral as a year or as YYMMDD depends on the
\* pandas version and on the rest of the column: libc says which.
ToDatetime(ss, libc) ==
    IF ss = NA THEN NaT
    ELSE IF IsIsoShape(ss)
    THEN DateIfValid(IntOf(SubSeq(ss, 1, 4)), IntOf(SubSeq(ss, 6, 7)),
                     IntOf(SubSeq(ss, 9, 10)))
    ELSE IF AllDigits(ss) /\ Len(ss) = 4 /\ libc = "numerals"
    THEN DateIfValid(IntOf(ss), 1, 1)
    ELSE IF AllDigits(ss) /\ Len(ss) = 6 /\ libc = "numerals"
    THEN DateIfValid(2000 + IntOf(SubSeq(ss, 1, 2)), IntOf(SubSeq(ss, 3, 4)),
                     IntOf(SubSeq(ss, 5, 6)))
    ELSE NaT


parse_mixed_date_series(cell, libc) ==
    LET st == IF cell = NA THEN NA ELSE Strip(cell, SPACE)
        ss == IF st \in {<<>>, <<"n","a","n">>, <<"N","a","N">>} THEN NA ELSE st
        is_serial == IsSerialToken(ss)
        out == ToDatetime(ss, libc)
    IN IF out.isna /\ is_serial /\ InSerialRange(IntOf(ss))
       THEN SerialToDate(IntOf(ss))
       ELSE out

(***************************************************************************)
(* A table (DataFrame) is [cols, rows]: the column names, and for each row *)
(* one cell per column.                                                    *)
(***************************************************************************)
S2TLookup(nc, mode) ==
    LET hit == {e \in SOURCE_TO_TARGET(mode) : e[1] = nc}
    IN IF hit = {} THEN <<>> ELSE (CHOOSE e \in hit : TRUE)[2]

\* rename_map and df.rename(columns=rename_map)
RenameColumns(t, mode) ==
    [cols |-> [i \in DOMAIN t.cols |->
                 LET tgt == S2TLookup(norm_col(t.cols[i]), mode)
                 IN IF tgt # <<>> THEN tgt ELSE t.cols[i]],
     rows |-> t.rows]

ColumnsUnique(t) == \A i, j \in DOMAIN t.cols : t.cols[i] = t.cols[j] => i = j

\* pd.unique(table.columns): the names in first-seen order
RECURSIVE UniqueNames(_, _)
UniqueNames(cols, seen) ==
    IF cols = <<>> THEN <<>>
    ELSE IF Head(cols) \in seen THEN UniqueNames(Tail(cols), seen)
    ELSE <<Head(cols)>> \o UniqueNames(Tail(cols), seen \union {Head(cols)})

\* A slip: the last of the duplicates wins (forward fill, last column).
RECURSIVE FirstNonNA_last(_)
FirstNonNA_last(cells) ==
    IF cells = <<>> THEN NA
    ELSE IF cells[Len(cells)] # NA THEN cells[Len(cells)]
    ELSE FirstNonNA_last(SubSeq(cells, 1, Len(cells) - 1))

\* cols.bfill(axis=1).iloc[:, 0]: the first cell, left to right, that is not NA
RECURSIVE FirstNonNA(_)
FirstNonNA(cells) ==
    IF cells = <<>> THEN NA
    ELSE IF Head(cells) # NA THEN Head(cells)
    ELSE FirstNonNA(Tail(cells))

\* the cells of a row under the columns called nm, left to right
RECURSIVE CellsNamed(_, _, _)
CellsNamed(cols, row, nm) ==
    IF cols = <<>> THEN <<>>
    ELSE (IF Head(cols) = nm THEN <<Head(row)>> ELSE <<>>)
         \o CellsNamed(Tail(cols), Tail(row), nm)

coalesce_duplicate_columns(t) ==
    IF ColumnsUnique(t) THEN t
    ELSE LET names == UniqueNames(t.cols, {})
         IN [cols |-> names,
             rows |-> [r \in DOMAIN t.rows |->
                         [k \in DOMAIN names |->
                            FirstNonNA(CellsNamed(t.cols, t.rows[r], names[k]))]]]

\* "if col not in df.columns: df[col] = pd.NA" and df[TARGET_COLS], one row
TargetCell(t, r, tname) ==
    LET hit == {i \in DOMAIN t.cols : t.cols[i] = tname}
    IN IF hit = {} THEN NA ELSE t.rows[r][CHOOSE i \in hit : TRUE]

\* the table after the rename, the coalescing and the slice to TARGET_COLS
MergedTable(table, mode) ==
    LET t == coalesce_duplicate_columns(RenameColumns(table, mode))
    IN [cols |-> TARGET_COLS,
        rows |-> [r \in DOMAIN t.rows |->
                    [k \in DOMAIN TARGET_COLS |-> TargetCell(t, r, TARGET_COLS[k])]]]

Field(row, tname) == row[CHOOSE k \in DOMAIN TARGET_COLS : TARGET_COLS[k] = tname]

YearOf(d) == IF d.isna THEN NaN ELSE Num(d.y, 0)

\* .astype("string").str.upper().str.strip(), then replace({"": pd.NA})
NormalizeState(cell) ==
    IF cell = NA THEN NA
    ELSE LET s == Strip(StrUpper(cell), SPACE) IN IF s = <<>> THEN NA ELSE s

\* the second pass over the text columns, which only the single-file script has
FinalText(cell, mode) == IF mode = "single" THEN clean_text_series(cell) ELSE cell

\* one row of the table through the text, numeric, date and derived steps
CleanRow(row, strat, mode, libc) ==
    LET txt(tname) == clean_text_series(Field(row, tname))
        wage_from == coerce_numeric_series(Field(row, t_wage_rate_from))
        wage_to == coerce_numeric_series(Field(row, t_wage_rate_to))
        wage_unit == txt(t_wage_unit)
        decision == parse_mixed_date_series(Field(row, t_decision_date), libc)
    IN [case_number |-> FinalText(txt(t_case_number), mode),
        case_status |-> FinalText(txt(t_case_status), mode),
        received_date |-> parse_mixed_date_series(Field(row, t_received_date), libc),
        decision_date |-> decision,
        employer_name |-> FinalText(txt(t_employer_name), mode),
        job_title |-> FinalText(txt(t_job_title), mode),
        soc_code |-> FinalText(txt(t_soc_code), mode),
        soc_title |-> FinalText(txt(t_soc_title), mode),
        worksite_city |-> FinalText(txt(t_worksite_city), mode),
        worksite_state |-> FinalText(NormalizeState(txt(t_worksite_state)), mode),
        wage_rate_from |-> wage_from,
        wage_rate_to |-> wage_to,
        wage_unit |-> FinalText(wage_unit, mode),
        wage_annual |-> Round2(compute_wage_annual(wage_from, wage_to, wage_unit, strat)),
        year |-> YearOf(decision)]

\* A slip: the filter tests the raw cell instead of the cleaned one.
KeepRow_raw(raw, rec) == Field(raw, t_case_number) # NA

\* df[df["case_number"].notna()]
KeepRow(raw, rec) == rec.case_number # NA

RECURSIVE CleanRows(_, _, _, _)
CleanRows(rows, strat, mode, libc) ==
    IF rows = <<>> THEN <<>>
    ELSE LET rec == CleanRow(Head(rows), strat, mode, libc)
         IN (IF KeepRow(Head(rows), rec) THEN <<rec>> ELSE <<>>)
            \o CleanRows(Tail(rows), strat, mode, libc)

\* clean_lca_xlsx_to_csv.py
load_and_clean_dataframe(table, wage_strategy, libc) ==
    CleanRows(MergedTable(table, "single").rows, wage_strategy, "single", libc)

\* backfill_clean_all.py: no strategy argument, the base is always "from"
load_and_clean(table, libc) ==
    CleanRows(MergedTable(table, "batch").rows, "from", "batch", libc)

(***************************************************************************)
(* Bounds and input sets                                                   *)
(***************************************************************************)
MaxLen == 4
MaxRows == 2
MaxUnitLen == 2
MaxStep == 300

SeqsUpTo(S, n) == UNION {[1..k -> S] : k \in 0..n}

Headers == SeqsUpTo({"a", "B", "1", "_", " ", "-", "U0130"}, MaxLen)

Unset == <<"UNSET">>
NoTable == [cols |-> <<>>, rows |-> <<>>]

\* raw headers as a disclosure file spells them
H_CASE_NUMBER == StrUpper(t_case_number)
H_Case_No == <<"C","a","s","e"," ","N","o",".">>
H_EMPLOYER_NAME == StrUpper(t_employer_name)
H_Employer == <<" ","E","m","p","l","o","y","e","r">>
H_WAGE_FROM == StrUpper(<<"w","a","g","e","_","r","a","t","e","_","o","f","_","p","a","y","_","f","r","o","m">>)
H_WAGE_TO == StrUpper(<<"w","a","g","e","_","r","a","t","e","_","o","f","_","p","a","y","_","t","o">>)
H_WAGE_UNIT == StrUpper(<<"w","a","g","e","_","u","n","i","t","_","o","f","_","p","a","y">>)
H_DECISION_DATE == StrUpper(t_decision_date)
H_Cert_Date == <<"O","r","i","g","i","n","a","l"," ","C","e","r","t"," ","D","a","t","e">>

\* every ordering of every subset of a set of headers
Arrangements(S) ==
    {c \in SeqsUpTo(S, Cardinality(S)) : \A i, j \in DOMAIN c : c[i] = c[j] => i = j}

\* A cell of column j holds a value that names its column; under the headers
\* in blanks it may also be missing or hold a blank, which is text, not NA.
Val(j) == <<"v", DIGITS[j + 1]>>
BLANK == <<" ">>
CellPool(h, j, blanks) ==
    {Val(j)} \union (IF h \in blanks THEN {NA, BLANK} ELSE {})

RowsFor(c, blanks) ==
    {r \in [DOMAIN c -> {NA, BLANK} \union {Val(j) : j \in DOMAIN c}] :
        \A j \in DOMAIN c : r[j] \in CellPool(c[j], j, blanks)}

\* the tables of at most MaxRows rows under the columns c
TablesWith(c, blanks) ==
    {[cols |-> c, rows |-> rs] : rs \in SeqsUpTo(RowsFor(c, blanks), MaxRows)}

\* one record with its wage and date columns
WageTables ==
    LET FromCells ==
            { NA, <<"5","0">>, <<"$","4","5",",","0","0","0",".","0","0">>,
              <<"9","9","9",".","9","9","5">>,
              <<"1","0","0","0">>, <<"1","0","0","0",".","0","0","4">>,
              <<"5","0","0","0","0","0","0">>,
              <<"5","0","0","0","0","0","0",".","0","1">>,
              <<"4","9","9","9","9","9","9",".","9","9","6">>,
              <<"0",".","4","8">>, <<"2","4","0","3",".","8","5">>,
              <<"7","6",".","9","2","3">>, <<"-","5","0">>, <<"a","b","c">> }
        ToCells ==
            { NA, <<"6","0">>, <<"7","0",",","0","0","0">>,
              <<"1","0","0","0",".","0","0","7">> }
        UnitCells ==
            { NA, <<"H","o","u","r">>, <<"P","e","r"," ","H","o","u","r">>,
              <<"B","i","-","W","e","e","k","l","y">>,
              <<"B","I","_","W","E","E","K","L","Y">>,
              <<"b","i","w","e","e","k","l","y">>,
              <<"A","n","n","u","a","l">>, <<" ","Y","e","a","r"," ">>, <<"y","r">>,
              <<"W","e","e","k">>, <<"w","k">>, <<"M","o","n","t","h">>, <<"m","o">>,
              <<"D","a","i","l","y">>, <<"d","a","y">>,
              <<"S","e","m","i","-","M","o","n","t","h","l","y">>,
              <<"s","e","m","i","_","m","o","n","t","h">>,
              <<"s","e","m","i","m","o","n","t","h","l","y">>,
              <<"F","o","r","t","n","i","g","h","t">>,
              <<"p","e","r"," ","a","n","n","u","m">>, <<"n","a","n">>, <<"N","A">> }
            \union SeqsUpTo({"h", "r", "m", "-"}, MaxUnitLen)
        DecisionCells ==
            { <<"2","0","2","2","-","0","1","-","1","0">>, <<"4","4","5","7","1">> }
    IN  {[cols |-> <<H_CASE_NUMBER, H_WAGE_FROM, H_WAGE_TO, H_WAGE_UNIT, H_DECISION_DATE>>,
          rows |-> << <<(<<"A","-","1">>), f, t, u, d>> >>] :
            f \in FromCells, t \in ToCells, u \in UnitCells, d \in DecisionCells}

\* the numeral of n in wd digits, zero-padded
RECURSIVE Numeral(_, _)
Numeral(n, wd) ==
    IF wd = 0 THEN <<>> ELSE Numeral(n \div 10, wd - 1) \o <<DIGITS[(n % 10) + 1]>>

\* numerals around the serial range, ISO strings, and other tokens
DateCells ==
    LET SerialValues ==
            { 999, 1000, 9999, 17999, 18000, 18001, 44270, 59999, 60000, 60001,
              99999, 100000 }
            \union {367 * k : k \in 0..MaxStep}
        NumeralCells ==
            {Numeral(n, wd) : n \in SerialValues, wd \in 3..7} \ {<<>>}
        IsoCells ==
            { y \o <<"-">> \o m \o <<"-">> \o d :
                y \in {<<"1","9","9","9">>, <<"2","0","2","1">>, <<"2","0","2","4">>},
                m \in {<<"0","0">>, <<"0","2">>, <<"0","3">>, <<"1","2">>, <<"1","3">>},
                d \in {<<"0","0">>, <<"1","5">>, <<"2","9">>, <<"3","0">>, <<"3","1">>} }
        OtherDateCells ==
            { NA, <<>>, BLANK, <<"n","a","n">>, <<"a","b","c">>,
              <<" ","4","4","2","7","0"," ">>, <<"4","4","2","7","0",".","0">>,
              <<"4","4","2","7","O">> }
    IN  NumeralCells \union IsoCells \union OtherDateCells

Strategies == {"from", "avg", "max"}

(***************************************************************************)
(* Header normalisation applied to a header and to its own result          *)
(***************************************************************************)
IdleNorm == name = <<>> /\ token = Unset /\ token2 = Unset
IdleDate == dcell = NA /\ parsed = NaT
\* manifest.csv does not exist until main() writes it
NoManifest == [written |-> FALSE, rows |-> <<>>]
IdleLoop ==
    manifest_rows = <<>> /\ outputs = <<>> /\ manifest = NoManifest /\ status = "running"
IdleBatch == listing = <<>> /\ files = <<>> /\ IdleLoop
IdleClean ==
    /\ script = "none" /\ strategy = "from" /\ df = NoTable
    /\ merged = NoTable /\ cleaned = <<>>

InitNorm ==
    /\ pc = "norm0"
    /\ name \in Headers
    /\ token = Unset
    /\ token2 = Unset
    /\ lib = "strict"
    /\ IdleDate /\ IdleClean /\ IdleBatch

NormOnce ==
    /\ pc = "norm0"
    /\ token' = norm_col(name)
    /\ pc' = "norm1"
    /\ UNCHANGED <<name, token2, lib, dateVars, cleanVars, batchVars>>

NormAgain ==
    /\ pc = "norm1"
    /\ token2' = norm_col(token)
    /\ pc' = "norm2"
    /\ UNCHANGED <<name, token, lib, dateVars, cleanVars, batchVars>>

NextNorm == NormOnce \/ NormAgain

SpecNorm == InitNorm /\ [][NextNorm]_vars

\* C9: header normalisation is idempotent: normalising an already
\* normalised header returns it unchanged, for every header string.
C9_NormColIdempotent == pc = "norm2" => token2 = token

\* A header with capitals, blanks, punctuation and underscores at its ends
\* has been normalised twice and its token is not empty.
C9_Witness ==
    /\ pc = "norm2"
    /\ name = <<" ", "B", "-", "_">>
    /\ token = <<"b">>

(***************************************************************************)
(* The cleaner run on one table                                            *)
(***************************************************************************)
\* The table is one of: a case number column next to two columns that both
\* mean employer_name; two columns that both mean case_number; one case
\* number column with the spellings of a missing value; one record with a
\* decision date column, a certification date column, or both in either
\* order; one record with a state under either of two headers; one wage
\* record.
Init ==
    /\ pc = "loaded"
    /\ lib = "strict"
    /\ \/ /\ \/ \E c \in Arrangements({H_CASE_NUMBER, H_EMPLOYER_NAME, H_Employer}) :
                    df \in TablesWith(c, {H_EMPLOYER_NAME, H_Employer})
             \/ \E c \in Arrangements({H_CASE_NUMBER, H_Case_No}) :
                    df \in TablesWith(c, {H_CASE_NUMBER, H_Case_No})
             \/ \E rs \in SeqsUpTo({<<c>> : c \in
                        { NA, <<>>, BLANK, <<"A","-","1">>, <<" ","A","-","1"," ">>,
                          <<"n","a","n">>, <<"N","a","N">>, <<"N","o","n","e">>,
                          <<"N","O","N","E">>, <<" ","n","a","n"," ">>,
                          <<"n","o","n","e">>, <<"N","A","N">>, <<"n","/","a">> }},
                      MaxRows) :
                    df = [cols |-> <<H_CASE_NUMBER>>, rows |-> rs]
          /\ script \in {"single", "batch"}
          /\ strategy = "from"
       \/ /\ \E c \in Arrangements({H_DECISION_DATE, H_Cert_Date}) :
                \E d1, d2 \in {NA, <<"2","0","2","2","-","0","1","-","1","0">>,
                                <<"2","0","2","1","-","0","3","-","1","5">>} :
                    df = [cols |-> <<H_CASE_NUMBER>> \o c,
                          rows |-> << SubSeq(<< <<"A","-","1">>, d1, d2 >>, 1, 1 + Len(c)) >>]
          /\ script \in {"single", "batch"}
          /\ strategy = "from"
       \/ /\ \E h \in {StrUpper(t_worksite_state),
                          <<"E","m","p","l","o","y","e","r"," ","S","t","a","t","e">>} :
                \E c \in {NA, <<"c","a">>, <<" ","T","X"," ">>, <<"n","o","n","e">>} :
                    df = [cols |-> <<H_CASE_NUMBER, h>>,
                          rows |-> << << <<"A","-","1">>, c >> >>]
          /\ script \in {"single", "batch"}
          /\ strategy = "from"
       \/ /\ df \in WageTables
          /\ \/ script = "single" /\ strategy \in Strategies
             \/ script = "batch" /\ strategy = "from"
    /\ merged = NoTable
    /\ cleaned = <<>>
    /\ IdleNorm /\ IdleDate /\ IdleBatch

\* clean_lca_xlsx_to_csv.py: cleaned = load_and_clean_dataframe(df, wage_strategy)
CleanSingle ==
    /\ pc = "loaded"
    /\ script = "single"
    /\ merged' = MergedTable(df, "single")
    /\ cleaned' = load_and_clean_dataframe(df, strategy, lib)
    /\ pc' = "cleaned"
    /\ UNCHANGED <<lib, script, strategy, df, normVars, dateVars, batchVars>>

\* backfill_clean_all.py: cleaned = load_and_clean(df)
CleanBatch ==
    /\ pc = "loaded"
    /\ script = "batch"
    /\ merged' = MergedTable(df, "batch")
    /\ cleaned' = load_and_clean(df, lib)
    /\ pc' = "cleaned"
    /\ UNCHANGED <<lib, script, strategy, df, normVars, dateVars, batchVars>>

Next == CleanSingle \/ CleanBatch

Spec == Init /\ [][Next]_vars

(***************************************************************************)
(* parse_mixed_date_series applied to one cell                             *)
(***************************************************************************)
InitDate ==
    /\ pc = "date0"
    /\ dcell \in DateCells
    /\ lib \in {"strict", "numerals"}
    /\ parsed = NaT
    /\ IdleNorm /\ IdleClean /\ IdleBatch

ParseDate ==
    /\ pc = "date0"
    /\ parsed' = parse_mixed_date_series(dcell, lib)
    /\ pc' = "date1"
    /\ UNCHANGED <<dcell, lib, normVars, cleanVars, batchVars>>

NextDate == ParseDate

SpecDate == InitDate /\ [][NextDate]_vars

(***************************************************************************)
(* backfill_clean_all.py: the order in which main() processes files        *)
(***************************************************************************)
\* code points of the characters that occur in file names
Ord(c) ==
    IF c = "-" THEN 45
    ELSE IF c = "." THEN 46
    ELSE IF IsDigit(c) THEN 48 + DigitValue[c]
    ELSE IF IsUpper(c) THEN 64 + IndexIn(UPPER, c)
    ELSE IF c = "_" THEN 95
    ELSE 96 + IndexIn(LOWER, c)

\* str < str: by code point, a proper prefix first
RECURSIVE StrLess(_, _)
StrLess(a, b) ==
    IF b = <<>> THEN FALSE
    ELSE IF a = <<>> THEN TRUE
    ELSE IF Head(a) # Head(b) THEN Ord(Head(a)) < Ord(Head(b))
    ELSE StrLess(Tail(a), Tail(b))

\* one letter of the pattern against one character, under re.IGNORECASE
SameLetter(c, u) == c = u \/ c = ToLower[u]

\* FY(\d{4})_Q([1-4]) matched with its first character at position i
MatchesAt(f, i) ==
    /\ i + 8 <= Len(f)
    /\ SameLetter(f[i], "F") /\ SameLetter(f[i + 1], "Y")
    /\ \A k \in 2..5 : IsDigit(f[i + k])
    /\ f[i + 6] = "_"
    /\ SameLetter(f[i + 7], "Q")
    /\ f[i + 8] \in {"1", "2", "3", "4"}

\* (None, None): the flag says that both components are None
NoMatch == [none |-> TRUE, fy |-> 0, q |-> 0]

\* re.search scans from the left and returns the first match
RECURSIVE SearchFrom(_, _)
SearchFrom(f, i) ==
    IF i + 8 > Len(f) THEN NoMatch
    ELSE IF MatchesAt(f, i)
         THEN [none |-> FALSE, fy |-> IntOf(SubSeq(f, i + 2, i + 5)),
               q |-> DigitValue[f[i + 8]]]
         ELSE SearchFrom(f, i + 1)

parse_fy_q(filename) == SearchFrom(filename, 1)

FY_SENTINEL == 9999
Q_SENTINEL == 9

sort_key_no_year(f) ==
    LET r == parse_fy_q(f)
    IN  <<FY_SENTINEL, IF ~r.none THEN r.q ELSE Q_SENTINEL, f>>

sort_key(f) ==
    LET r == parse_fy_q(f)
    IN  <<IF ~r.none THEN r.fy ELSE FY_SENTINEL,
          IF ~r.none THEN r.q ELSE Q_SENTINEL,
          f>>

\* tuple < tuple, as Python compares (int, int, str)
KeyLess(a, b) ==
    \/ a[1] < b[1]
    \/ a[1] = b[1] /\ a[2] < b[2]
    \/ a[1] = b[1] /\ a[2] = b[2] /\ StrLess(a[3], b[3])

\* list.sort(key=sort_key) is stable: an element goes after every element
\* whose key is not greater
RECURSIVE InsertByKey(_, _)
InsertByKey(sorted, f) ==
    IF sorted = <<>> THEN <<f>>
    ELSE IF KeyLess(sort_key(f), sort_key(Head(sorted))) THEN <<f>> \o sorted
    ELSE <<Head(sorted)>> \o InsertByKey(Tail(sorted), f)

RECURSIVE SortFiles(_)
SortFiles(fs) ==
    IF fs = <<>> THEN <<>>
    ELSE InsertByKey(SortFiles(SubSeq(fs, 1, Len(fs) - 1)), fs[Len(fs)])

\* the default --pattern .*\.xlsx$ under re.IGNORECASE
XLSX == <<".", "x", "l", "s", "x">>
MatchesPattern(f) ==
    /\ Len(f) >= Len(XLSX)
    /\ StrLower(SubSeq(f, Len(f) - Len(XLSX) + 1, Len(f))) = XLSX

RECURSIVE Matched(_)
Matched(entries) ==
    IF entries = <<>> THEN <<>>
    ELSE (IF MatchesPattern(Head(entries)) THEN <<Head(entries)>> ELSE <<>>)
         \o Matched(Tail(entries))

\* directory contents
MaxFiles == 3
Stem(y, q) == <<"F", "Y">> \o y \o <<"_", "Q", q>>
FileNames ==
    { Stem(<<"2", "0", "2", "0">>, "4") \o XLSX,
      Stem(<<"2", "0", "2", "1">>, "2") \o XLSX,
      Stem(<<"2", "0", "2", "1">>, "1") \o <<".", "X", "L", "S", "X">>,
      <<"f", "y">> \o <<"2", "0", "2", "1">> \o <<"_", "q", "1">> \o XLSX,
      <<"a", "_">> \o Stem(<<"2", "0", "2", "0">>, "4") \o XLSX,
      <<"Z", "-">> \o Stem(<<"2", "0", "2", "0">>, "3") \o <<"2">> \o XLSX,
      Stem(<<"9", "9", "9", "9">>, "4") \o XLSX,
      Stem(<<"9", "9", "9", "9">>, "1") \o XLSX,
      Stem(<<"2", "0", "2", "0">>, "5") \o XLSX,
      Stem(<<"2", "0", "2", "0">> \o <<"1">>, "1") \o XLSX,
      <<"A", "N", "N", "E", "X">> \o XLSX,
      <<"m", "i", "s", "c">> \o XLSX,
      Stem(<<"2", "0", "2", "0">>, "1") \o <<".", "c", "s", "v">> }
Listings ==
    {l \in SeqsUpTo(FileNames, MaxFiles) : \A i, j \in DOMAIN l : i # j => l[i] # l[j]}

InitBatch ==
    /\ pc = "main"
    /\ listing \in Listings
    /\ files = <<>>
    /\ lib = "strict"
    /\ IdleNorm /\ IdleDate /\ IdleClean /\ IdleLoop

\* "if not files: return 1"
MainNoFiles ==
    /\ pc = "main"
    /\ Matched(listing) = <<>>
    /\ pc' = "exit"
    /\ status' = "1"
    /\ UNCHANGED <<lib, normVars, dateVars, cleanVars, listing, files,
                   manifest_rows, outputs, manifest>>

\* files.sort(key=sort_key), then the loop over files begins
MainSort ==
    /\ pc = "main"
    /\ Matched(listing) # <<>>
    /\ files' = SortFiles(Matched(listing))
    /\ pc' = "loop"
    /\ UNCHANGED <<listing, lib, normVars, dateVars, cleanVars,
                   manifest_rows, outputs, manifest, status>>

NextBatch == MainNoFiles \/ MainSort

SpecBatch == InitBatch /\ [][NextBatch]_vars

(***************************************************************************)
(* backfill_clean_all.py: the loop of main() over the sorted files         *)
(***************************************************************************)
\* str.replace(old, new): every occurrence, left to right
RECURSIVE Replace(_, _, _)
Replace(s, old, new) ==
    IF Len(s) < Len(old) THEN s
    ELSE IF SubSeq(s, 1, Len(old)) = old
         THEN new \o Replace(SubSeq(s, Len(old) + 1, Len(s)), old, new)
         ELSE <<Head(s)>> \o Replace(Tail(s), old, new)

\* the dict appended to manifest_rows for fname, read as table and cleaned to recs
ManifestRow(fname, table, recs) ==
    LET CSV == <<".", "c", "s", "v">>
        dates == {recs[k].decision_date : k \in DOMAIN recs}
        present == {d \in dates : ~d.isna}
        Leq(a, b) == \/ a.y < b.y
                     \/ (a.y = b.y /\ a.m < b.m)
                     \/ (a.y = b.y /\ a.m = b.m /\ a.d <= b.d)
    IN [file |-> fname,
        fy_q_in_name |-> parse_fy_q(fname),
        input_rows |-> Len(table.rows),
        output_rows |-> Len(recs),
        decision_date_min |->
            IF present = {} THEN NaT ELSE CHOOSE d \in present : \A e \in present : Leq(d, e),
        decision_date_max |->
            IF present = {} THEN NaT ELSE CHOOSE d \in present : \A e \in present : Leq(e, d),
        wage_annual_nonnull |-> Cardinality({k \in DOMAIN recs : ~recs[k].wage_annual.isna}),
        output_csv |-> Replace(Replace(fname, XLSX, CSV), StrUpper(XLSX), CSV)]

\* the workbooks a matched file may hold
RunTables ==
    { [cols |-> <<H_CASE_NUMBER, H_DECISION_DATE>>, rows |-> <<>>],
      [cols |-> <<H_DECISION_DATE, H_CASE_NUMBER>>,
       rows |-> << << <<"2","0","2","1","-","0","3","-","1","5">>, <<"A","-","1">> >>,
                   << <<"2","0","2","4","-","0","2","-","2","9">>, <<"n","a","n">> >>,
                   << <<"4","4","5","7","1">>, <<"A","-","2">> >> >>] }

RunNames ==
    { Stem(<<"2", "0", "2", "0">>, "4") \o XLSX,
      Stem(<<"2", "0", "2", "1">>, "2") \o StrUpper(XLSX),
      <<"m", "i", "s", "c">> \o XLSX,
      Stem(<<"2", "0", "2", "0">>, "1") \o <<".", "c", "s", "v">> }

InitRun ==
    /\ pc = "main"
    /\ listing \in {l \in SeqsUpTo(RunNames, MaxFiles) :
                        \A i, j \in DOMAIN l : i # j => l[i] # l[j]}
    /\ files = <<>>
    /\ lib = "strict"
    /\ IdleNorm /\ IdleDate /\ IdleClean /\ IdleLoop

\* one pass of the loop body: the next file is read, cleaned and written,
\* and its row is appended to manifest_rows
ProcessFile ==
    /\ pc = "loop"
    /\ Len(manifest_rows) < Len(files)
    /\ \E table \in RunTables :
          LET fname == files[Len(manifest_rows) + 1]
              recs == load_and_clean(table, lib)
              row == ManifestRow(fname, table, recs)
          IN /\ df' = table
             /\ script' = "batch"
             /\ merged' = MergedTable(table, "batch")
             /\ cleaned' = recs
             /\ outputs' = Append(outputs, row.output_csv)
             /\ manifest_rows' = Append(manifest_rows, row)
    /\ UNCHANGED <<pc, lib, strategy, normVars, dateVars, listing, files, manifest, status>>

\* A slip: the rows collected so far are written out when a file fails.
FileRaises_writes_manifest ==
    /\ pc = "loop"
    /\ Len(manifest_rows) < Len(files)
    /\ manifest' = [written |-> TRUE, rows |-> manifest_rows]
    /\ pc' = "exit"
    /\ status' = "raised"
    /\ UNCHANGED <<lib, normVars, dateVars, cleanVars, listing, files,
                   manifest_rows, outputs>>

\* pd.read_excel (or the write of the CSV) raises for the next file: nothing
\* catches it, and the process ends with a traceback
FileRaises ==
    /\ pc = "loop"
    /\ Len(manifest_rows) < Len(files)
    /\ pc' = "exit"
    /\ status' = "raised"
    /\ UNCHANGED <<lib, normVars, dateVars, cleanVars, listing, files,
                   manifest_rows, outputs, manifest>>

\* after the loop: manifest.to_csv(manifest_path), return 0
WriteManifest ==
    /\ pc = "loop"
    /\ Len(manifest_rows) = Len(files)
    /\ manifest' = [written |-> TRUE, rows |-> manifest_rows]
    /\ pc' = "exit"
    /\ status' = "0"
    /\ UNCHANGED <<lib, normVars, dateVars, cleanVars, listing, files,
                   manifest_rows, outputs>>

NextRun == MainNoFiles \/ MainSort \/ ProcessFile \/ FileRaises \/ WriteManifest

SpecRun == InitRun /\ [][NextRun]_vars

(***************************************************************************)
(* What the claims say, stated from the input table                        *)
(***************************************************************************)
Min(S) == CHOOSE x \in S : \A y \in S : x <= y

\* the raw columns of df that mean the field tname
ColsMeaning(tname) ==
    LET hs == IF tname = t_case_number THEN {H_CASE_NUMBER, H_Case_No}
              ELSE IF tname = t_employer_name THEN {H_EMPLOYER_NAME, H_Employer}
              ELSE IF tname = t_wage_rate_from THEN {H_WAGE_FROM}
              ELSE IF tname = t_wage_rate_to THEN {H_WAGE_TO}
              ELSE IF tname = t_wage_unit THEN {H_WAGE_UNIT}
              ELSE IF tname = t_decision_date THEN {H_DECISION_DATE}
              ELSE {}
    IN {i \in DOMAIN df.cols : df.cols[i] \in hs}

\* the leftmost cell of row r, among the columns meaning tname, that is not NA
LeftmostValue(r, tname) ==
    LET full == {i \in ColsMeaning(tname) : df.rows[r][i] # NA}
    IN IF full = {} THEN NA ELSE df.rows[r][Min(full)]

\* a cell is missing text: NA, or one of the tokens between blanks only
IsBetweenBlanks(cell, tok) ==
    \E i \in 1..(Len(cell) + 1) :
        /\ i + Len(tok) - 1 <= Len(cell)
        /\ SubSeq(cell, i, i + Len(tok) - 1) = tok
        /\ \A k \in DOMAIN cell : (k < i \/ k >= i + Len(tok)) => cell[k] = " "
MissingText(cell) ==
    cell = NA \/ \E tok \in {<<>>, <<"n","a","n">>, <<"N","a","N">>, <<"N","o","n","e">>, <<"N","O","N","E">>} : IsBetweenBlanks(cell, tok)

\* the input rows that have a case number, and the place of each in the output
HasCase(r) == ~MissingText(LeftmostValue(r, t_case_number))
KeptBefore(r) == Cardinality({q \in 1..r : HasCase(q)})

\* C1: a row of the input table is in the output if and only if its case
\* number is not missing after trimming (NA, empty, nan, NaN, None, NONE are
\* missing): the output holds exactly those rows, in order, each with a
\* case number that is not missing.
C1_RowKeptIffCaseNumber ==
    pc = "cleaned" =>
        /\ Len(cleaned) = KeptBefore(Len(df.rows))
        /\ \A k \in DOMAIN cleaned : cleaned[k].case_number # NA
        /\ \A r \in DOMAIN df.rows :
              HasCase(r) =>
                 IsBetweenBlanks(LeftmostValue(r, t_case_number),
                                 cleaned[KeptBefore(r)].case_number)

\* Two rows went in, the first with a blank-padded nan for a case number,
\* and one record came out: the second, trimmed.
C1_Witness ==
    /\ pc = "cleaned"
    /\ df.rows = << << <<" ">> \o <<"n","a","n">> \o <<" ">> >>, << <<" ","A","-","1"," ">> >> >>
    /\ Len(cleaned) = 1
    /\ cleaned[1].case_number = <<"A","-","1">>

(***************************************************************************)
(* The wage claims, stated from the emitted record                         *)
(***************************************************************************)
\* the multiplier of each fixed unit key
UNIT_KEYS ==
    { << <<"y","e","a","r">>, 1>>, << <<"h","o","u","r">>, 2080>>, << <<"w","e","e","k">>, 52>>, << <<"b","i","_","w","e","e","k","l","y">>, 26>>,
      << <<"s","e","m","i","_","m","o","n","t","h","l","y">>, 24>>, << <<"m","o","n","t","h">>, 12>>, << <<"d","a","y">>, 260>> }
IsUnitKey(x) == \E e \in UNIT_KEYS : e[1] = x
Multiplier(x) == (CHOOSE e \in UNIT_KEYS : e[1] = x)[2]

\* the spellings wage-unit normalisation maps to a unit key
KNOWN_VARIANTS ==
    { <<"b","i","_","w","e","e","k","l","y">>, <<"b","i","w","e","e","k","l","y">>,
      <<"s","e","m","i","_","m","o","n","t","h","l","y">>, <<"s","e","m","i","_","m","o","n","t","h">>,
      <<"h","o","u","r">>, <<"h","r">>, <<"p","e","r","_","h","o","u","r">>,
      <<"w","e","e","k">>, <<"w","k">>, <<"p","e","r","_","w","e","e","k">>,
      <<"m","o","n","t","h">>, <<"m","o">>, <<"p","e","r","_","m","o","n","t","h">>,
      <<"y","e","a","r">>, <<"y","r">>, <<"p","e","r","_","y","e","a","r">>, <<"a","n","n","u","a","l">>,
      <<"d","a","y">>, <<"d","a","i","l","y">>, <<"p","e","r","_","d","a","y">> }

\* the annual figure before the range check, of an emitted record
RawAnnual(rec) ==
    FMul(WageBase(rec.wage_rate_from, rec.wage_rate_to, strategy),
         WageFactor(normalize_wage_unit(rec.wage_unit)))

\* 1000 <= a <= 5,000,000
WithinBounds(a) ==
    /\ a.w >= 1000
    /\ a.w < 5000000 \/ (a.w = 5000000 /\ a.f = 0)

\* C2: under every strategy the emitted wage_annual is missing or lies in
\* [1000, 5,000,000]; a raw annual figure outside that range is emitted as
\* missing, not as a bound; the rounding keeps the value in the range.
C2_WageAnnualInRange ==
    pc = "cleaned" =>
        \A k \in DOMAIN cleaned :
            LET rec == cleaned[k]
                raw == RawAnnual(rec)
            IN /\ rec.wage_annual.isna \/ WithinBounds(rec.wage_annual)
               /\ (~raw.isna /\ ~WithinBounds(raw)) => rec.wage_annual.isna
               /\ (~raw.isna /\ WithinBounds(raw)) => ~rec.wage_annual.isna

\* An hourly rate of 2403.85 annualises to 5,000,008 and is emitted missing,
\* under the max strategy.
C2_Witness ==
    /\ pc = "cleaned"
    /\ strategy = "max"
    /\ Len(cleaned) = 1
    /\ cleaned[1].wage_rate_from = Num(2403, 85 * (SCALE \div 100))
    /\ cleaned[1].wage_rate_to = NaN
    /\ normalize_wage_unit(cleaned[1].wage_unit) = <<"h","o","u","r">>
    /\ cleaned[1].wage_annual.isna

\* A figure of 4,999,999.996 is in range and is emitted as 5,000,000.00.
C2_WitnessRounding ==
    /\ pc = "cleaned"
    /\ Len(cleaned) = 1
    /\ RawAnnual(cleaned[1]) = Num(4999999, 996 * (SCALE \div 1000))
    /\ cleaned[1].wage_annual = Num(5000000, 0)

\* the base of the "from" strategy and the product the claim speaks of
FromBase(rec) == IF ~rec.wage_rate_from.isna THEN rec.wage_rate_from ELSE rec.wage_rate_to
FromProduct(rec) == NumMulInt(FromBase(rec), Multiplier(normalize_wage_unit(rec.wage_unit)))
FromCase(rec) ==
    /\ strategy = "from"
    /\ IsUnitKey(normalize_wage_unit(rec.wage_unit))
    /\ ~FromBase(rec).isna
    /\ WithinBounds(FromProduct(rec))

\* |a - b| <= half a hundredth, for a, b not missing
WithinHalfCent(a, b) ==
    LET half == SCALE \div 200
        lo == IF NumLeq(a, b) THEN a ELSE b
        hi == IF NumLeq(a, b) THEN b ELSE a
    IN NumLeq(hi, NumAdd(lo, Num(0, half)))

\* C3 as stated: under the "from" strategy a unit that normalises to a unit
\* key gives wage_annual = base x multiplier whenever the product is in
\* range, the base being wage_rate_from if present and wage_rate_to otherwise.
C3_AsStated ==
    pc = "cleaned" =>
        \A k \in DOMAIN cleaned :
            FromCase(cleaned[k]) => cleaned[k].wage_annual = FromProduct(cleaned[k])

\* C3, amended: under the "from" strategy a unit that normalises to a unit
\* key gives wage_annual = base x multiplier rounded to 2 decimals (a whole
\* number of hundredths within half a hundredth of the product, and the
\* product itself when it has at most 2 decimals) whenever the product is in
\* range; with both wage values missing, wage_annual is missing.
C3_FromStrategyAnnual ==
    pc = "cleaned" =>
        \A k \in DOMAIN cleaned :
            LET rec == cleaned[k] IN
            /\ FromCase(rec) =>
                  /\ ~rec.wage_annual.isna
                  /\ rec.wage_annual.f % (SCALE \div 100) = 0
                  /\ WithinHalfCent(rec.wage_annual, FromProduct(rec))
                  /\ FromProduct(rec).f % (SCALE \div 100) = 0
                        => rec.wage_annual = FromProduct(rec)
            /\ (rec.wage_rate_from.isna /\ rec.wage_rate_to.isna) => rec.wage_annual.isna

\* from = 50 with unit "Hour" is emitted as 104000.00.
C3_Witness ==
    /\ pc = "cleaned"
    /\ strategy = "from"
    /\ Len(cleaned) = 1
    /\ cleaned[1].wage_rate_from = Num(50, 0)
    /\ cleaned[1].wage_unit = <<"H","o","u","r">>
    /\ cleaned[1].wage_annual = Num(104000, 0)

\* the base the avg strategy is said to use
AvgBaseClaimed(rec) ==
    IF ~rec.wage_rate_from.isna /\ ~rec.wage_rate_to.isna
    THEN NumHalf(NumAdd(rec.wage_rate_from, rec.wage_rate_to))
    ELSE IF ~rec.wage_rate_from.isna THEN rec.wage_rate_from
    ELSE rec.wage_rate_to

\* C4: under the avg strategy the base is the average of wage_rate_from and
\* wage_rate_to when both are present, otherwise whichever one is present,
\* and missing only when both are missing; so the emitted wage_annual is
\* that base annualised, range-checked and rounded.
C4_AvgBase ==
    (pc = "cleaned" /\ strategy = "avg") =>
        \A k \in DOMAIN cleaned :
            cleaned[k].wage_annual =
                Round2(Guardrails(FMul(AvgBaseClaimed(cleaned[k]),
                                       WageFactor(normalize_wage_unit(cleaned[k].wage_unit)))))

\* C6 as stated: a wage unit that is not empty and is not one of the known
\* variant spellings passes through normalisation unchanged, finds no
\* multiplier and gives a missing wage_annual, under every strategy.
C6_AsStated ==
    pc = "cleaned" =>
        \A k \in DOMAIN cleaned :
            LET rec == cleaned[k] IN
            (rec.wage_unit # NA /\ norm_col(rec.wage_unit) \notin KNOWN_VARIANTS)
                => rec.wage_annual.isna

\* C6, amended: a wage unit that is not empty, is not one of the known
\* variant spellings and is not "semimonthly" (a key of the multiplier table
\* that normalisation does not map) passes through as its normalised token
\* (as missing when that token is empty), finds no multiplier and gives a
\* missing wage_annual, under every strategy and for every wage value.
C6_UnknownUnitMissing ==
    pc = "cleaned" =>
        \A k \in DOMAIN cleaned :
            LET rec == cleaned[k]
                tok == norm_col(rec.wage_unit)
            IN (rec.wage_unit # NA /\ tok \notin KNOWN_VARIANTS /\ tok # <<"s","e","m","i","m","o","n","t","h","l","y">>)
                => /\ normalize_wage_unit(rec.wage_unit) = (IF tok = <<>> THEN NA ELSE tok)
                   /\ WageFactor(normalize_wage_unit(rec.wage_unit)).isna
                   /\ rec.wage_annual.isna

\* "Fortnight" with a wage of 45,000 under the avg strategy: no wage_annual.
C6_Witness ==
    /\ pc = "cleaned"
    /\ strategy = "avg"
    /\ Len(cleaned) = 1
    /\ cleaned[1].wage_unit = <<"F","o","r","t","n","i","g","h","t">>
    /\ cleaned[1].wage_rate_from = Num(45000, 0)
    /\ cleaned[1].wage_annual.isna

\* C7: the emitted wage_unit is the normalised unit token, the one the
\* multiplier is looked up with: a unit that is a known variant spelling
\* is emitted as its unit key.
C7_EmittedUnitNormalized ==
    pc = "cleaned" =>
        \A k \in DOMAIN cleaned :
            (cleaned[k].wage_unit # NA /\ norm_col(cleaned[k].wage_unit) \in KNOWN_VARIANTS)
                => /\ IsUnitKey(cleaned[k].wage_unit)
                   /\ cleaned[k].wage_unit = normalize_wage_unit(cleaned[k].wage_unit)

(***************************************************************************)
(* Coalescing of the columns renamed to one field                          *)
(***************************************************************************)
DuplicatedFields == {t \in {t_case_number, t_employer_name} : Cardinality(ColsMeaning(t)) >= 2}

\* C5: when two or more raw columns are renamed to one field, the merged
\* column holds, row by row, the leftmost of their cells that is not
\* missing, and is missing only where all of them are; a kept row emits
\* that value, trimmed.
C5_CoalesceFirstNonMissing ==
    pc = "cleaned" =>
        \A t \in DuplicatedFields : \A r \in DOMAIN df.rows :
            /\ Field(merged.rows[r], t) = LeftmostValue(r, t)
            /\ Field(merged.rows[r], t) = NA <=> \A i \in ColsMeaning(t) : df.rows[r][i] = NA
            /\ (t = t_employer_name /\ HasCase(r) /\ ~MissingText(LeftmostValue(r, t)))
                  => /\ cleaned[KeptBefore(r)].employer_name # NA
                     /\ IsBetweenBlanks(LeftmostValue(r, t), cleaned[KeptBefore(r)].employer_name)

\* Two employer columns: row 1 has a value in the first only, row 2 in the
\* second only, and both records carry an employer name.
C5_Witness ==
    /\ pc = "cleaned"
    /\ df.cols = <<H_CASE_NUMBER, H_EMPLOYER_NAME, H_Employer>>
    /\ df.rows = << <<Val(1), Val(2), NA>>, <<Val(1), NA, Val(3)>> >>
    /\ Len(cleaned) = 2
    /\ cleaned[1].employer_name = Val(2)
    /\ cleaned[2].employer_name = Val(3)

(***************************************************************************)
(* The date claim                                                          *)
(***************************************************************************)
\* days from 1899-12-30 to a date of 1900 or later, counted year by year
\* and month by month
DaysToYear(y) == 2 + 365 * (y - 1900) + Cardinality({yy \in 1900..(y - 1) : IsLeap(yy)})

DaysToMonth(y, m) ==
    LET lens == [mm \in 1..12 |-> MonthLen(y, mm)]
        RECURSIVE Sum(_)
        Sum(k) == IF k = 0 THEN 0 ELSE Sum(k - 1) + lens[k]
    IN  Sum(m - 1)

SerialOf(dt) == DaysToYear(dt.y) + DaysToMonth(dt.y, dt.m) + dt.d - 1

\* the cell as the parser sees it, and whether the calendar parser gave up
DateToken == IF dcell = NA THEN NA ELSE Strip(dcell, SPACE)
NotCalendar == ToDatetime(IF DateToken \in {<<>>, <<"n","a","n">>, <<"N","a","N">>} THEN NA ELSE DateToken, lib).isna
IsNumeral4to6 ==
    /\ DateToken # NA
    /\ Len(DateToken) >= 4 /\ Len(DateToken) <= 6
    /\ \A i \in DOMAIN DateToken : DateToken[i] \in DigitSet

\* C8: a date cell that is no calendar string parses, when it is a numeral
\* of 4 to 6 digits with a value n in [18000, 60000], to the date n days
\* after 1899-12-30, and to a missing date otherwise; "44270" and
\* "2021-03-15" both give 2021-03-15.
C8_SerialDate ==
    pc = "date1" =>
        /\ NotCalendar =>
              IF IsNumeral4to6 /\ IntOf(DateToken) >= 18000 /\ IntOf(DateToken) <= 60000
              THEN /\ ~parsed.isna
                   /\ parsed.y >= 1900 /\ parsed.m \in 1..12
                   /\ parsed.d \in 1..MonthLen(parsed.y, parsed.m)
                   /\ SerialOf(parsed) = IntOf(DateToken)
              ELSE parsed.isna
        /\ dcell = <<"4","4","2","7","0">> => parsed = Date(2021, 3, 15)
        /\ dcell = <<"2","0","2","1","-","0","3","-","1","5">> => parsed = Date(2021, 3, 15)

\* The numeral 044270, six digits with the value 44270, parsed to 2021-03-15
\* where the library did not read it as a calendar date.
C8_Witness ==
    /\ pc = "date1"
    /\ dcell = <<"0","4","4","2","7","0">>
    /\ NotCalendar
    /\ parsed = Date(2021, 3, 15)

(***************************************************************************)
(* The processing-order claim                                              *)
(***************************************************************************)
\* a name is recognised when FY, four digits, _Q and a digit 1-4 occur in
\* it, in either case; its year and quarter are read at the leftmost place
Places(f) ==
    {i \in 1..Len(f) :
        /\ i + 8 <= Len(f)
        /\ StrUpper(<<f[i], f[i + 1]>>) = <<"F", "Y">>
        /\ \A k \in 2..5 : f[i + k] \in DigitSet
        /\ f[i + 6] = "_"
        /\ StrUpper(<<f[i + 7]>>) = <<"Q">>
        /\ f[i + 8] \in {"1", "2", "3", "4"}}
Recognised(f) == Places(f) # {}
YearIn(f) == IntOf(SubSeq(f, Min(Places(f)) + 2, Min(Places(f)) + 5))
QuarterIn(f) == IntOf(<<f[Min(Places(f)) + 8]>>)

\* f is processed before g
ComesBefore(f, g) ==
    IF Recognised(f) /\ Recognised(g)
    THEN \/ YearIn(f) < YearIn(g)
         \/ YearIn(f) = YearIn(g) /\ QuarterIn(f) < QuarterIn(g)
         \/ YearIn(f) = YearIn(g) /\ QuarterIn(f) = QuarterIn(g) /\ StrLess(f, g)
    ELSE IF Recognised(f) # Recognised(g) THEN Recognised(f)
    ELSE StrLess(f, g)

\* C10: the batch processes exactly the matched files, by fiscal year, then
\* quarter, then file name, with every unrecognised name after every
\* recognised one, the year 9999 included.
C10_ProcessingOrder ==
    pc = "loop" =>
        /\ Range(files) = {listing[i] : i \in {k \in DOMAIN listing : MatchesPattern(listing[k])}}
        /\ Len(files) = Cardinality(Range(files))
        /\ \A i, j \in DOMAIN files : i < j => ComesBefore(files[i], files[j])

\* A listing that names misc, FY9999_Q4 and FY2021_Q2 in that order is
\* processed as FY2021_Q2, FY9999_Q4, misc.
C10_Witness ==
    /\ pc = "loop"
    /\ listing = << <<"m", "i", "s", "c">> \o XLSX, Stem(<<"9", "9", "9", "9">>, "4") \o XLSX,
                    Stem(<<"2", "0", "2", "1">>, "2") \o XLSX >>
    /\ files = << Stem(<<"2", "0", "2", "1">>, "2") \o XLSX, Stem(<<"9", "9", "9", "9">>, "4") \o XLSX,
                  <<"m", "i", "s", "c">> \o XLSX >>

(***************************************************************************)
(* The batch run                                                           *)
(***************************************************************************)
\* the number of names in the listing that the pattern matches
MatchedCount == Cardinality({i \in DOMAIN listing : MatchesPattern(listing[i])})

\* C11: the batch handles the files one after another in processing order;
\* manifest.csv is written exactly when every matched file was read,
\* cleaned and written, and then holds one row per matched file, in
\* processing order, and nothing else; when a file fails the run ends
\* there, with no manifest, the failing file not skipped and no later file
\* processed; when no file matches nothing is written and the status is 1.
C11_BatchManifest ==
    /\ Len(outputs) = Len(manifest_rows) /\ Len(manifest_rows) <= Len(files)
    /\ \A k \in DOMAIN manifest_rows : manifest_rows[k].file = files[k]
    /\ manifest.written <=> (pc = "exit" /\ status = "0")
    /\ pc = "exit" =>
          /\ status = "0" <=> (MatchedCount > 0 /\ Len(outputs) = MatchedCount)
          /\ status = "0" =>
                /\ Len(manifest.rows) = MatchedCount
                /\ \A k \in DOMAIN manifest.rows : manifest.rows[k].file = files[k]
          /\ status = "raised" => (~manifest.written /\ Len(outputs) < MatchedCount)
          /\ status = "1" <=> MatchedCount = 0
          /\ status = "1" => (outputs = <<>> /\ ~manifest.written)
          /\ ~ENABLED NextRun

\* Three files matched; the first was written, the second failed, and the
\* run ended without a manifest.
C11_Witness ==
    /\ pc = "exit"
    /\ status = "raised"
    /\ Len(files) = 3
    /\ Len(outputs) = 1
    /\ ~manifest.written

\* Three files matched and a manifest of three rows was written.
C11_WitnessManifest ==
    /\ pc = "exit"
    /\ status = "0"
    /\ Len(files) = 3
    /\ Len(manifest.rows) = 3

(***************************************************************************)
(* Decision date against original certification date                       *)
(***************************************************************************)
\* C12: when a table has a decision_date column and an original_cert_date
\* column, every row whose decision_date cell is not missing is emitted
\* with that cell's value as its decision_date, whichever of the two
\* columns comes first; the original_cert_date cell is used only where
\* the decision_date cell is missing.
C12_DecisionDatePreferred ==
    pc = "cleaned" =>
        \A i, j \in DOMAIN df.cols :
            (df.cols[i] = H_DECISION_DATE /\ df.cols[j] = H_Cert_Date) =>
                \A r \in DOMAIN df.rows :
                    LET preferred == IF df.rows[r][i] # NA THEN df.rows[r][i]
                                     ELSE df.rows[r][j]
                    IN /\ Field(merged.rows[r], t_decision_date) = preferred
                       /\ cleaned[r].decision_date = parse_mixed_date_series(preferred, lib)

(***************************************************************************)
(* The two pipelines side by side                                          *)
(***************************************************************************)
\* C13: on every raw table, load_and_clean of the batch script and
\* load_and_clean_dataframe of the single-file script under the "from"
\* strategy give the same records, field for field.
C13_PipelinesEquivalent ==
    (pc = "cleaned" /\ strategy = "from") =>
        cleaned = IF script = "single" THEN load_and_clean(df, lib)
                  ELSE load_and_clean_dataframe(df, "from", lib)

====
